---- MODULE Spec2Model ----
(***************************************************************************)
(* Payment-UZ (src/server.py): the six encode/verify tools of the Payme,   *)
(* Click and Octo adapters, modelled as operators over Python values, and  *)
(* a state machine whose state is the last tool invocation.                *)
(*                                                                         *)
(* Representation.  A Python str is a sequence of Unicode code points, a   *)
(* bytes object a sequence of 0..255.  A float amount is an integer number *)
(* of thousandths (1500 is 1.5): every amount of the model is a decimal    *)
(* with at most three fractional digits and fewer than 15 significant      *)
(* digits, for which repr() is the decimal itself.  A dict is a record     *)
(* with exactly the keys the code returns.                                 *)
(***************************************************************************)
EXTENDS Integers, Sequences, FiniteSets, TLC

VARIABLES op, args, result

vars == <<op, args, result>>

(***************************************************************************)
(* Characters and strings                                                  *)
(***************************************************************************)

\* The printable ASCII characters of code points 32..95, in order.
Printable ==
  <<" ", "!", "\"", "#", "$", "%", "&", "'", "(", ")", "*", "+", ",", "-", ".", "/",
    "0", "1", "2", "3", "4", "5", "6", "7", "8", "9", ":", ";", "<", "=", ">", "?",
    "@", "A", "B", "C", "D", "E", "F", "G", "H", "I", "J", "K", "L", "M", "N", "O",
    "P", "Q", "R", "S", "T", "U", "V", "W", "X", "Y", "Z", "[", "\\", "]", "^", "_">>

\* The printable ASCII characters of code points 97..126, in order.
PrintableLower ==
  <<"a", "b", "c", "d", "e", "f", "g", "h", "i", "j", "k", "l", "m", "n", "o",
    "p", "q", "r", "s", "t", "u", "v", "w", "x", "y", "z", "{", "|", "}", "~">>

\* ord(c) of a printable ASCII character.
Ord(c) ==
  IF \E i \in 1..Len(Printable) : Printable[i] = c
  THEN 31 + (CHOOSE i \in 1..Len(Printable) : Printable[i] = c)
  ELSE 96 + (CHOOSE i \in 1..Len(PrintableLower) : PrintableLower[i] = c)

\* A str literal: the code points of a tuple of characters.
S(t) == [i \in 1..Len(t) |-> Ord(t[i])]

\* The one-character str U+00E9 (e with acute accent), whose UTF-8 form has
\* two bytes.
EAcute == <<233>>

RECURSIVE Concat(_)
\* "".join(parts): the parts one after the other, no separator.
Concat(parts) ==
  IF parts = <<>> THEN <<>> ELSE Head(parts) \o Concat(Tail(parts))

RECURSIVE Join(_, _)
\* sep.join(parts)
Join(sep, parts) ==
  IF parts = <<>> THEN <<>>
  ELSE IF Len(parts) = 1 THEN parts[1]
  ELSE parts[1] \o sep \o Join(sep, Tail(parts))

\* A letter in lower case, any other character as it is.
Lower(c) == IF c >= 65 /\ c <= 90 THEN c + 32 ELSE c

\* A prefix test that ignores the case of letters ("basic " for "Basic ").
StartsWithIgnoreCase(s, p) ==
  /\ Len(s) >= Len(p)
  /\ \A i \in 1..Len(p) : Lower(s[i]) = Lower(p[i])

\* s.startswith(p)
StartsWith(s, p) == Len(s) >= Len(p) /\ SubSeq(s, 1, Len(p)) = p

\* A containment test that looks at the start of s only.
ContainsAtStart(s, sub) ==
  Len(s) >= Len(sub) /\ SubSeq(s, 1, Len(sub)) = sub

\* sub in s
Contains(s, sub) ==
  \E i \in 0..(Len(s) - Len(sub)) : SubSeq(s, i + 1, i + Len(sub)) = sub

\* Everything after the first space of s.
SplitSpaceRest(s) ==
  LET first == CHOOSE i \in 1..Len(s) :
                 s[i] = 32 /\ \A j \in 1..(i - 1) : s[j] # 32
  IN  SubSeq(s, first + 1, Len(s))


\* s.split(" ")[1] for an s that holds a space: the text between the first
\* space and the second one (or the end).
SplitSpaceSecond(s) ==
  LET first == CHOOSE i \in 1..Len(s) :
                 s[i] = 32 /\ \A j \in 1..(i - 1) : s[j] # 32
      rest  == SubSeq(s, first + 1, Len(s))
      stops == {i \in 1..Len(rest) : rest[i] = 32}
  IN  IF stops = {} THEN rest
      ELSE SubSeq(rest, 1, (CHOOSE i \in stops : \A j \in stops : i <= j) - 1)

RECURSIVE NatToStr(_)
\* The decimal digits of a natural number.
NatToStr(n) ==
  IF n < 10 THEN <<48 + n>> ELSE NatToStr(n \div 10) \o <<48 + (n % 10)>>

\* str(n) / f"{n}" of a Python int.
IntToStr(n) == IF n < 0 THEN <<45>> \o NatToStr(-n) ELSE NatToStr(n)

(***************************************************************************)
(* Codec utilities: UTF-8, base64, hex digests, float formatting           *)
(***************************************************************************)

\* The UTF-8 bytes of one code point (surrogates never occur in the model).
Utf8Char(cp) ==
  IF cp < 128 THEN <<cp>>
  ELSE IF cp < 2048 THEN <<192 + (cp \div 64), 128 + (cp % 64)>>
  ELSE IF cp < 65536
       THEN <<224 + (cp \div 4096), 128 + ((cp \div 64) % 64), 128 + (cp % 64)>>
  ELSE <<240 + (cp \div 262144), 128 + ((cp \div 4096) % 64),
         128 + ((cp \div 64) % 64), 128 + (cp % 64)>>

RECURSIVE Utf8Encode(_)
\* s.encode(): the UTF-8 bytes of a str, character by character (the str
\* is split in halves to keep the evaluation shallow).
Utf8Encode(s) ==
  IF s = <<>> THEN <<>>
  ELSE IF Len(s) = 1 THEN Utf8Char(s[1])
  ELSE LET mid == Len(s) \div 2
       IN  Utf8Encode(SubSeq(s, 1, mid)) \o Utf8Encode(SubSeq(s, mid + 1, Len(s)))

\* A continuation byte 10xxxxxx.
IsCont(b) == b >= 128 /\ b <= 191

\* The length of the well-formed UTF-8 sequence that starts b, 0 when there
\* is none (Unicode table 3-7: no overlong forms, no surrogates, at most
\* U+10FFFF).
Utf8SeqLen(b) ==
  IF b[1] < 128 THEN 1
  ELSE IF b[1] >= 194 /\ b[1] <= 223
       THEN IF Len(b) >= 2 /\ IsCont(b[2]) THEN 2 ELSE 0
  ELSE IF b[1] >= 224 /\ b[1] <= 239
       THEN IF /\ Len(b) >= 3
               /\ IsCont(b[2])
               /\ IsCont(b[3])
               /\ (b[1] = 224 => b[2] >= 160)
               /\ (b[1] = 237 => b[2] <= 159)
            THEN 3 ELSE 0
  ELSE IF b[1] >= 240 /\ b[1] <= 244
       THEN IF /\ Len(b) >= 4
               /\ IsCont(b[2])
               /\ IsCont(b[3])
               /\ IsCont(b[4])
               /\ (b[1] = 240 => b[2] >= 144)
               /\ (b[1] = 244 => b[2] <= 143)
            THEN 4 ELSE 0
  ELSE 0

\* The code point of a well-formed sequence of n bytes at the head of b.
Utf8CodePoint(b, n) ==
  IF n = 1 THEN b[1]
  ELSE IF n = 2 THEN (b[1] - 192) * 64 + (b[2] - 128)
  ELSE IF n = 3 THEN (b[1] - 224) * 4096 + (b[2] - 128) * 64 + (b[3] - 128)
  ELSE (b[1] - 240) * 262144 + (b[2] - 128) * 4096 + (b[3] - 128) * 64
       + (b[4] - 128)

\* One step of the decoder: st.pos is the next byte to read, st.s the code
\* points decoded so far; a malformed sequence clears st.ok for good.
Utf8DecodeStep(b, st) ==
  IF ~st.ok \/ st.pos > Len(b) THEN st
  ELSE LET rest == SubSeq(b, st.pos, Len(b))
           n    == Utf8SeqLen(rest)
       IN  IF n = 0 THEN [st EXCEPT !.ok = FALSE]
           ELSE [ok  |-> TRUE,
                 pos |-> st.pos + n,
                 s   |-> Append(st.s, Utf8CodePoint(rest, n))]

RECURSIVE Utf8DecodeSteps(_, _, _)
\* k steps of the decoder (in two halves, to keep the evaluation shallow).
Utf8DecodeSteps(b, st, k) ==
  IF k = 0 THEN st
  ELSE IF k = 1 THEN Utf8DecodeStep(b, st)
  ELSE LET half == Utf8DecodeSteps(b, st, k \div 2)
       IN  IF ~half.ok THEN half
           ELSE Utf8DecodeSteps(b, half, k - (k \div 2))

\* b.decode(): [ok |-> TRUE, s |-> the str], or ok = FALSE where Python
\* raises UnicodeDecodeError.  Len(b) steps read every byte.
Utf8Decode(b) ==
  LET end == Utf8DecodeSteps(b, [ok |-> TRUE, pos |-> 1, s |-> <<>>], Len(b))
  IN  IF end.ok THEN [ok |-> TRUE, s |-> end.s] ELSE [ok |-> FALSE, s |-> <<>>]

\* The character of a 6-bit value in the standard base64 alphabet.
B64Char(v) ==
  IF v < 26 THEN 65 + v
  ELSE IF v < 52 THEN 97 + (v - 26)
  ELSE IF v < 62 THEN 48 + (v - 52)
  ELSE IF v = 62 THEN 43
  ELSE 47

\* The 6-bit value of a base64 character, 64 for any other character
\* (binascii's table_a2b_base64).
B64Val(c) ==
  IF c >= 65 /\ c <= 90 THEN c - 65
  ELSE IF c >= 97 /\ c <= 122 THEN c - 97 + 26
  ELSE IF c >= 48 /\ c <= 57 THEN c - 48 + 52
  ELSE IF c = 43 THEN 62
  ELSE IF c = 47 THEN 63
  ELSE 64

RECURSIVE B64EncodeUnpadded(_)
\* A base64 encoder that leaves the "=" padding out.
B64EncodeUnpadded(b) ==
  IF b = <<>> THEN <<>>
  ELSE IF Len(b) = 1
       THEN <<B64Char(b[1] \div 4), B64Char((b[1] % 4) * 16)>>
  ELSE IF Len(b) = 2
       THEN <<B64Char(b[1] \div 4),
              B64Char((b[1] % 4) * 16 + (b[2] \div 16)),
              B64Char((b[2] % 16) * 4)>>
  ELSE <<B64Char(b[1] \div 4),
         B64Char((b[1] % 4) * 16 + (b[2] \div 16)),
         B64Char((b[2] % 16) * 4 + (b[3] \div 64)),
         B64Char(b[3] % 64)>> \o B64EncodeUnpadded(SubSeq(b, 4, Len(b)))

RECURSIVE b64encode(_)
\* base64.b64encode(b).decode(): standard alphabet, "=" padding.
b64encode(b) ==
  IF b = <<>> THEN <<>>
  ELSE IF Len(b) = 1
       THEN <<B64Char(b[1] \div 4), B64Char((b[1] % 4) * 16), 61, 61>>
  ELSE IF Len(b) = 2
       THEN <<B64Char(b[1] \div 4),
              B64Char((b[1] % 4) * 16 + (b[2] \div 16)),
              B64Char((b[2] % 16) * 4), 61>>
  ELSE <<B64Char(b[1] \div 4),
         B64Char((b[1] % 4) * 16 + (b[2] \div 16)),
         B64Char((b[2] % 16) * 4 + (b[3] \div 64)),
         B64Char(b[3] % 64)>> \o b64encode(SubSeq(b, 4, Len(b)))

\* The body of the loop of binascii.a2b_base64 in its default, non-strict
\* mode, for the character c: a character outside the alphabet is skipped,
\* a complete pad sequence ends the parse (done), any other character adds
\* its six bits.
A2bStep(st, c) ==
  IF st.done THEN st
  ELSE IF c = 61
  THEN IF st.quad_pos >= 2 /\ st.quad_pos + st.pads + 1 >= 4
       THEN [st EXCEPT !.done = TRUE]
       ELSE IF st.quad_pos >= 2 THEN [st EXCEPT !.pads = st.pads + 1] ELSE st
  ELSE IF B64Val(c) = 64 THEN st
  ELSE LET v == B64Val(c) IN
       IF st.quad_pos = 0
       THEN [st EXCEPT !.quad_pos = 1, !.leftchar = v, !.pads = 0]
       ELSE IF st.quad_pos = 1
       THEN [st EXCEPT !.quad_pos = 2, !.leftchar = v % 16, !.pads = 0,
                       !.b = Append(st.b, st.leftchar * 4 + (v \div 16))]
       ELSE IF st.quad_pos = 2
       THEN [st EXCEPT !.quad_pos = 3, !.leftchar = v % 4, !.pads = 0,
                       !.b = Append(st.b, st.leftchar * 16 + (v \div 4))]
       ELSE [st EXCEPT !.quad_pos = 0, !.leftchar = 0, !.pads = 0,
                       !.b = Append(st.b, st.leftchar * 64 + v)]

RECURSIVE A2bLoop(_, _, _, _)
\* The loop over the characters lo..hi of data (in two halves, to keep the
\* evaluation shallow).
A2bLoop(data, lo, hi, st) ==
  IF lo > hi THEN st
  ELSE IF lo = hi THEN A2bStep(st, data[lo])
  ELSE LET mid  == (lo + hi) \div 2
           half == A2bLoop(data, lo, mid, st)
       IN  IF half.done THEN half ELSE A2bLoop(data, mid + 1, hi, half)

\* binascii.a2b_base64(data): the loop, then the check that no quad is left
\* open unless a pad sequence closed the parse.
A2bBase64(data) ==
  LET end == A2bLoop(data, 1, Len(data),
                     [quad_pos |-> 0, leftchar |-> 0, pads |-> 0,
                      done |-> FALSE, b |-> <<>>])
  IN  IF end.done \/ end.quad_pos = 0
      THEN [ok |-> TRUE, b |-> end.b, exception |-> "binascii.Error"]
      ELSE [ok |-> FALSE, b |-> <<>>, exception |-> "binascii.Error"]

\* base64.b64decode(s) of a str: a str with a non-ASCII character raises
\* ValueError, malformed input raises binascii.Error (ok = FALSE, and
\* exception names the class; with ok = TRUE the field means nothing).
b64decode(s) ==
  IF \E i \in 1..Len(s) : s[i] > 127
  THEN [ok |-> FALSE, b |-> <<>>, exception |-> "ValueError"]
  ELSE A2bBase64(s)

\* A lowercase hex digit.
HexDigit(v) == IF v < 10 THEN 48 + v ELSE 97 + (v - 10)

RECURSIVE HexLower(_)
\* bytes.hex(): two lowercase hex digits a byte.
HexLower(b) ==
  IF b = <<>> THEN <<>>
  ELSE <<HexDigit(Head(b) \div 16), HexDigit(Head(b) % 16)>> \o HexLower(Tail(b))

\* hashlib.md5(b).hexdigest().  The compression function is idealised as a
\* collision-free digest: what callers rely on is that the digest is a
\* function of the bytes, that distinct inputs give distinct digests, and
\* that it is rendered in lowercase hex.  The leading byte keeps the MD5 and
\* SHA-256 digests of the same input apart.
md5_hexdigest(b) == HexLower(<<213>> \o b)

\* hashlib.sha256(b).hexdigest(), idealised the same way.
sha256_hexdigest(b) == HexLower(<<162>> \o b)

(***************************************************************************)
(* Float amounts (thousandths)                                             *)
(***************************************************************************)

\* The floats that are no number: float("inf"), float("-inf"), float("nan").
\* They have codes beyond the thousandths of every amount, as IEEE-754
\* gives them bit patterns beyond the largest finite double; no arithmetic
\* is done on the codes.
Inf == 2147483647
NegInf == -Inf
NaN == Inf - 1


RECURSIVE DigitsValue(_)
\* The value of a run of decimal digits ("" is 0).
DigitsValue(d) ==
  IF d = <<>> THEN 0
  ELSE DigitsValue(SubSeq(d, 1, Len(d) - 1)) * 10 + (d[Len(d)] - 48)

\* float(text) for a decimal literal with at most three fractional digits,
\* as the tool boundary converts a caller's amount to the annotated type
\* `amount: float`: the value in thousandths.
ParseFloat(text) ==
  LET neg   == text # <<>> /\ text[1] = 45
      body  == IF neg THEN Tail(text) ELSE text
      dots  == {i \in 1..Len(body) : body[i] = 46}
      dot   == IF dots = {} THEN Len(body) + 1 ELSE CHOOSE i \in dots : TRUE
      whole == SubSeq(body, 1, dot - 1)
      frac  == SubSeq(body, dot + 1, Len(body))
      pad   == frac \o SubSeq(<<48, 48, 48>>, 1, 3 - Len(frac))
      v     == DigitsValue(whole) * 1000 + DigitsValue(pad)
  IN  IF neg THEN -v ELSE v

\* str(x) / f"{x}" of a float: repr gives the shortest decimal that reads
\* back as x, always with a fractional part ("1000.0", "0.006", "1.5").
\* The floats that are no number read "inf", "-inf" and "nan".
FloatToStr(m) ==
  IF m = Inf THEN S(<<"i", "n", "f">>)
  ELSE IF m = NegInf THEN S(<<"-", "i", "n", "f">>)
  ELSE IF m = NaN THEN S(<<"n", "a", "n">>)
  ELSE
  LET a    == IF m < 0 THEN -m ELSE m
      f    == a % 1000
      frac == IF f = 0 THEN <<48>>
              ELSE IF f % 100 = 0 THEN NatToStr(f \div 100)
              ELSE IF f % 10 = 0
                   THEN <<48 + (f \div 100), 48 + ((f \div 10) % 10)>>
              ELSE <<48 + (f \div 100), 48 + ((f \div 10) % 10), 48 + (f % 10)>>
  IN  (IF m < 0 THEN <<45>> ELSE <<>>) \o NatToStr(a \div 1000) \o <<46>> \o frac

\* The amounts below 3.0 whose IEEE-754 double product amount * 100 is the
\* double just below the exact, integral product (0.29 * 100 is
\* 28.999999999999996); for every other amount of the model the product
\* truncates as the exact one does.
ProductBelowExact ==
  {290, 570, 580, 1130, 1140, 1150, 1160, 2010, 2030, 2050, 2070, 2260,
   2280, 2300, 2320, 2510, 2530, 2550}

\* int(amount * 100): the double product, truncated towards zero.
IntOfTimes100(m) ==
  LET a == IF m < 0 THEN -m ELSE m
      t == IF a \in ProductBelowExact THEN (a \div 10) - 1 ELSE a \div 10
  IN  IF m < 0 THEN -t ELSE t

(***************************************************************************)
(* Payme tools                                                             *)
(***************************************************************************)

\* A label kept in one place for every invocation: "production" as soon as
\* any invocation under way asked for production.
EnvironmentLabelShared(is_production) ==
  IF \E c \in DOMAIN op :
       /\ op[c] # "none"
       /\ "is_production" \in DOMAIN args[c]
       /\ args[c].is_production
  THEN "production" ELSE "test"


\* "production" if is_production else "test"
EnvironmentLabel(is_production) ==
  IF is_production THEN "production" ELSE "test"

\* checkout_base_url of payme_generate_checkout_url.
PaymeCheckoutBaseUrl(is_production) ==
  IF is_production
  THEN S(<<"h", "t", "t", "p", "s", ":", "/", "/", "c", "h", "e", "c", "k", "o", "u", "t", ".", "p", "a", "y", "c", "o", "m", ".", "u", "z">>)
  ELSE S(<<"h", "t", "t", "p", "s", ":", "/", "/", "c", "h", "e", "c", "k", "o", "u", "t", ".", "t", "e", "s", "t", ".", "p", "a", "y", "c", "o", "m", ".", "u", "z">>)

\* params of payme_generate_checkout_url:
\* f"m={merchant_id};ac.{account};a={amount_in_tiyin};c={return_url}" with
\* account = f"order_id={order_id}".
PaymeParams(merchant_id, amount_in_tiyin, order_id, return_url) ==
  Concat(<<S(<<"m", "=">>), merchant_id, S(<<";", "a", "c", ".">>), S(<<"o", "r", "d", "e", "r", "_", "i", "d", "=">>) \o order_id,
           S(<<";", "a", "=">>), IntToStr(amount_in_tiyin), S(<<";", "c", "=">>), return_url>>)

\* An exception that leaves a tool: the tool returns no dict.
Raised(exception) == [raised |-> exception]

\* int(amount * 100) raises ValueError for nan and OverflowError for inf
\* and -inf; the tool has no try around it.
payme_generate_checkout_url(merchant_id, amount, order_id, return_url, is_production) ==
  IF amount = NaN THEN Raised("ValueError")
  ELSE IF amount \in {Inf, NegInf} THEN Raised("OverflowError")
  ELSE
  LET amount_in_tiyin == IntOfTimes100(amount)
      params          == PaymeParams(merchant_id, amount_in_tiyin, order_id,
                                     return_url)
      encoded_params  == b64encode(Utf8Encode(params))
      payment_url     == PaymeCheckoutBaseUrl(is_production) \o S(<<"/">>)
                         \o encoded_params
  IN  [success        |-> TRUE,
       payment_url    |-> payment_url,
       environment    |-> EnvironmentLabel(is_production),
       amount_uzs     |-> amount,
       amount_tiyin   |-> amount_in_tiyin,
       order_id       |-> order_id,
       encoded_params |-> encoded_params,
       instructions   |-> "Redirect user to this URL to complete payment"]

\* The dict of the except branch: the exception's text is abstracted to the
\* exception's class.
PaymeAuthError(exception) ==
  [valid  |-> FALSE,
   reason |-> <<"Error verifying authorization: ", exception>>]

\* A verification that returns the decoded text whatever the verdict.
PaymeVerifyEchoingDecoded(authorization_header, merchant_key) ==
  IF ~StartsWith(authorization_header, S(<<"B", "a", "s", "i", "c", " ">>))
  THEN [valid  |-> FALSE,
        reason |-> <<"Authorization must use Basic authentication">>]
  ELSE LET token == SplitSpaceSecond(authorization_header)
           raw   == b64decode(token)
           text  == Utf8Decode(raw.b)
       IN  IF ~raw.ok THEN PaymeAuthError(raw.exception)
           ELSE IF ~text.ok THEN PaymeAuthError("UnicodeDecodeError")
           ELSE LET is_valid == Contains(text.s, merchant_key)
                IN  [valid        |-> is_valid,
                     decoded_auth |-> text.s,
                     message      |-> IF is_valid
                                      THEN "Valid Payme webhook authentication"
                                      ELSE "Invalid merchant key"]


payme_verify_webhook_auth(authorization_header, merchant_key) ==
  IF ~StartsWith(authorization_header, S(<<"B", "a", "s", "i", "c", " ">>))
  THEN [valid  |-> FALSE,
        reason |-> <<"Authorization must use Basic authentication">>]
  ELSE LET token == SplitSpaceSecond(authorization_header)
           raw   == b64decode(token)
           text  == Utf8Decode(raw.b)
       IN  IF ~raw.ok THEN PaymeAuthError(raw.exception)
           ELSE IF ~text.ok THEN PaymeAuthError("UnicodeDecodeError")
           ELSE LET decoded  == text.s
                    is_valid == Contains(decoded, merchant_key)
                IN  [valid        |-> is_valid,
                     decoded_auth |-> IF is_valid THEN decoded
                                      ELSE S(<<"[", "h", "i", "d", "d", "e", "n", "]">>),
                     message      |-> IF is_valid
                                      THEN "Valid Payme webhook authentication"
                                      ELSE "Invalid merchant key"]

\* An argument as the server hands it to a tool: a str, or an object of
\* another type (None, an int) where a str is expected.
PyStr(s) == [type |-> "str", s |-> s]
PyObject(type) == [type |-> type, s |-> <<>>]

\* payme_verify_webhook_auth for a header of any type: on an object that is
\* no str, authorization_header.startswith raises AttributeError inside the
\* try, and the except branch returns its dict.
PaymeVerifyWebhookAuthOfObject(authorization_header, merchant_key) ==
  IF authorization_header.type = "str"
  THEN payme_verify_webhook_auth(authorization_header.s, merchant_key)
  ELSE PaymeAuthError("AttributeError")


(***************************************************************************)
(* Click tools                                                             *)
(***************************************************************************)

\* An Optional[str] argument: None, or a str.
None == [some |-> FALSE, s |-> <<>>]
Some(s) == [some |-> TRUE, s |-> s]

\* base_url of click_generate_invoice_url: one literal for both branches.
ClickBaseUrl(is_production) ==
  IF is_production
  THEN S(<<"h", "t", "t", "p", "s", ":", "/", "/", "m", "y", ".", "c", "l", "i", "c", "k", ".", "u", "z", "/", "s", "e", "r", "v", "i", "c", "e", "s", "/", "p", "a", "y">>)
  ELSE S(<<"h", "t", "t", "p", "s", ":", "/", "/", "m", "y", ".", "c", "l", "i", "c", "k", ".", "u", "z", "/", "s", "e", "r", "v", "i", "c", "e", "s", "/", "p", "a", "y">>)

\* params of click_generate_invoice_url, a dict in insertion order, each
\* value as f"{v}" renders it; merchant_user_id is added when it is truthy
\* (neither None nor "").
ClickParams(service_id, merchant_id, amount, transaction_param, return_url, merchant_user_id) ==
  <<<<S(<<"s", "e", "r", "v", "i", "c", "e", "_", "i", "d">>), service_id>>,
    <<S(<<"m", "e", "r", "c", "h", "a", "n", "t", "_", "i", "d">>), merchant_id>>,
    <<S(<<"a", "m", "o", "u", "n", "t">>), FloatToStr(amount)>>,
    <<S(<<"t", "r", "a", "n", "s", "a", "c", "t", "i", "o", "n", "_", "p", "a", "r", "a", "m">>), transaction_param>>,
    <<S(<<"r", "e", "t", "u", "r", "n", "_", "u", "r", "l">>), return_url>>>>
  \o (IF merchant_user_id.some /\ merchant_user_id.s # <<>>
      THEN <<<<S(<<"m", "e", "r", "c", "h", "a", "n", "t", "_", "u", "s", "e", "r", "_", "i", "d">>), merchant_user_id.s>>>>
      ELSE <<>>)

\* A query string with the pairs in the reverse of their insertion order.
QueryStringReversed(params) ==
  Join(S(<<"&">>), [i \in 1..Len(params) |->
                      params[Len(params) + 1 - i][1] \o S(<<"=">>)
                      \o params[Len(params) + 1 - i][2]])


\* "&".join([f"{k}={v}" for k, v in params.items()])
QueryString(params) ==
  Join(S(<<"&">>), [i \in 1..Len(params) |-> params[i][1] \o S(<<"=">>) \o params[i][2]])

click_generate_invoice_url(service_id, merchant_id, amount, transaction_param, return_url, merchant_user_id, is_production) ==
  LET params       == ClickParams(service_id, merchant_id, amount,
                                  transaction_param, return_url,
                                  merchant_user_id)
      query_string == QueryString(params)
      invoice_url  == ClickBaseUrl(is_production) \o S(<<"?">>) \o query_string
  IN  [success           |-> TRUE,
       invoice_url       |-> invoice_url,
       environment       |-> EnvironmentLabel(is_production),
       amount            |-> amount,
       transaction_param |-> transaction_param,
       instructions      |->
         "Redirect user to this URL to complete Click payment"]

\* A sign string with a ";" between the fields.
ClickSignStringSeparated(click_trans_id, service_id, secret_key, merchant_trans_id, amount, action, sign_time) ==
  Join(S(<<";">>), <<click_trans_id, service_id, secret_key, merchant_trans_id,
                     FloatToStr(amount), IntToStr(action), sign_time>>)


\* A sign string that leaves the time of signing out.
ClickSignStringWithoutSignTime(click_trans_id, service_id, secret_key, merchant_trans_id, amount, action, sign_time) ==
  Concat(<<click_trans_id, service_id, secret_key, merchant_trans_id,
           FloatToStr(amount), IntToStr(action)>>)


\* sign_string of click_verify_webhook_signature: the seven fields, each as
\* f"{...}" renders it, with nothing between them.
ClickSignString(click_trans_id, service_id, secret_key, merchant_trans_id, amount, action, sign_time) ==
  Concat(<<click_trans_id, service_id, secret_key, merchant_trans_id,
           FloatToStr(amount), IntToStr(action), sign_time>>)

click_verify_webhook_signature(click_trans_id, service_id, secret_key, merchant_trans_id, amount, action, sign_time, received_sign_string) ==
  LET sign_string        == ClickSignString(click_trans_id, service_id,
                                            secret_key, merchant_trans_id,
                                            amount, action, sign_time)
      expected_signature == md5_hexdigest(Utf8Encode(sign_string))
      is_valid           == expected_signature = received_sign_string
  IN  [valid              |-> is_valid,
       expected_signature |-> expected_signature,
       received_signature |-> received_sign_string,
       message            |-> IF is_valid THEN "Signature is valid"
                              ELSE "Invalid signature - potential security issue"]

(***************************************************************************)
(* Octo tools                                                              *)
(***************************************************************************)

\* base_url of octo_create_payment.
OctoBaseUrl(is_production) ==
  IF is_production
  THEN S(<<"h", "t", "t", "p", "s", ":", "/", "/", "a", "p", "i", ".", "o", "c", "t", "o", ".", "u", "z", "/", "v", "1", "/", "p", "a", "y", "m", "e", "n", "t", "/", "i", "n", "i", "t">>)
  ELSE S(<<"h", "t", "t", "p", "s", ":", "/", "/", "a", "p", "i", ".", "t", "e", "s", "t", ".", "o", "c", "t", "o", ".", "u", "z", "/", "v", "1", "/", "p", "a", "y", "m", "e", "n", "t", "/", "i", "n", "i", "t">>)

\* A payment sign string with the secret put first.
OctoPaymentSignStringSecretFirst(transaction_id, amount, currency, secret_key) ==
  Concat(<<secret_key, transaction_id, FloatToStr(amount), currency>>)


\* sign_string of octo_create_payment:
\* f"{transaction_id}{amount}{currency}{secret_key}"
OctoPaymentSignString(transaction_id, amount, currency, secret_key) ==
  Concat(<<transaction_id, FloatToStr(amount), currency, secret_key>>)

octo_create_payment(api_key, secret_key, amount, transaction_id, return_url, auto_capture, currency, is_production) ==
  LET sign_string == OctoPaymentSignString(transaction_id, amount, currency,
                                           secret_key)
      signature   == sha256_hexdigest(Utf8Encode(sign_string))
  IN  [success      |-> TRUE,
       api_endpoint |-> OctoBaseUrl(is_production),
       payment_data |-> [api_key        |-> api_key,
                         amount         |-> amount,
                         currency       |-> currency,
                         transaction_id |-> transaction_id,
                         return_url     |-> return_url,
                         auto_capture   |-> auto_capture,
                         signature      |-> signature],
       environment  |-> EnvironmentLabel(is_production),
       instructions |-> "POST this data to the API endpoint to create payment",
       expected_response |->
         [octo_payment_UUID   |-> S(<<"u", "n", "i", "q", "u", "e", "_", "u", "u", "i", "d">>),
          shop_transaction_id |-> transaction_id,
          status              |-> S(<<"c", "r", "e", "a", "t", "e", "d">>),
          pay_url             |-> S(<<"h", "t", "t", "p", "s", ":", "/", "/", "p", "a", "y", "m", "e", "n", "t", ".", "o", "c", "t", "o", ".", "u", "z", "/", "c", "h", "e", "c", "k", "o", "u", "t", "/", "u", "n", "i", "q", "u", "e", "_", "u", "u", "i", "d">>)]]

\* The signature octo_create_payment puts in the payload of a payment, which
\* of its arguments depends on these four only.
OctoPaymentSignature(transaction_id, amount, currency, secret_key) ==
  octo_create_payment(<<>>, secret_key, amount, transaction_id, <<>>, TRUE, currency, FALSE).payment_data.signature


\* A sign string with the secret put first.
OctoWebhookSignStringSecretFirst(octo_payment_uuid, status, secret_key) ==
  Concat(<<secret_key, octo_payment_uuid, status>>)

\* sign_string of octo_verify_webhook_signature:
\* f"{octo_payment_uuid}{status}{secret_key}"
OctoWebhookSignString(octo_payment_uuid, status, secret_key) ==
  Concat(<<octo_payment_uuid, status, secret_key>>)

octo_verify_webhook_signature(octo_payment_uuid, status, received_signature, secret_key) ==
  LET sign_string        == OctoWebhookSignString(octo_payment_uuid, status,
                                                  secret_key)
      expected_signature == sha256_hexdigest(Utf8Encode(sign_string))
      is_valid           == expected_signature = received_signature
  IN  [valid              |-> is_valid,
       expected_signature |-> expected_signature,
       received_signature |-> received_signature,
       message            |-> IF is_valid THEN "Valid Octo webhook"
                              ELSE "Invalid signature"]

(***************************************************************************)
(* Inputs of the model                                                     *)
(***************************************************************************)

\* Bounds: the longest header body, signed identifier and payment UUID the
\* callers of the model send.
MaxBodyLen == 4
MaxIdLen == 2
MaxUuidLen == 2

\* Every sequence over A of length at most n.
SeqsUpTo(A, n) == UNION {[1..k -> A] : k \in 0..n}

\* Amounts as callers write them; the tool boundary turns each into a float.
AmountTexts ==
  {S(<<"0">>), S(<<"-", "1", ".", "5">>), S(<<"0", ".", "0", "0", "4">>), S(<<"0", ".", "0", "0", "6">>), S(<<"0", ".", "2", "9">>), S(<<"1", "0", "0", "0">>), S(<<"1", "0", "0", "0", ".", "0">>),
   S(<<"1", "0", "0", "0", ".", "5", "0">>), S(<<"5", "0", "0", "0", "0", ".", "0", "0">>), S(<<"5", "0", "0", "0", "0", ".", "0", "0", "5">>)}

\* Amounts a provider puts in a webhook.
WebhookAmountTexts == {S(<<"1", "0", "0", "0">>), S(<<"1", "0", "0", "0", ".", "0">>), S(<<"1", "0", "0", "0", ".", "5", "0">>), S(<<"0", ".", "0", "0", "6">>)}

Secrets == {<<>>, S(<<"a">>), S(<<"k">>), S(<<"s", "3", "c", "r", "e", "t">>), EAcute}

\* Secret keys shared with a signing provider.
SigningSecrets == {S(<<"k">>), S(<<"s", "3", "c", "r", "e", "t">>), S(<<"3">>)}

\* Decoded Basic credentials ("merchant_id:merchant_key" and others).
Credentials ==
  {<<>>, S(<<"a">>), S(<<"m", "1", ":", "s", "3", "c", "r", "e", "t">>), S(<<"s", "3", "c", "r", "e", "t", ":", "m", "1">>), S(<<"m", "1", ":", "s", "e", "c", "r", "e", "t">>), EAcute,
   S(<<"P", "a", "y", "c", "o", "m", ":">>) \o EAcute}

\* Characters of the text after "Basic ": base64 characters, padding, a
\* character outside the alphabet, the space, and "/" (with which a token
\* decodes to bytes that are no UTF-8).
BodyAlphabet == {Ord("Y"), Ord("Q"), Ord("="), Ord("!"), Ord(" "), Ord("/")}

\* Authorization headers: "Basic " and any short body, "Basic " and the
\* base64 of a credential (as it is, after a character outside the base64
\* alphabet, and before a second word), and headers of other shapes.
BasicHeaders ==
  {S(<<"B", "a", "s", "i", "c", " ">>) \o body : body \in SeqsUpTo(BodyAlphabet, MaxBodyLen)}
  \cup {S(<<"B", "a", "s", "i", "c", " ">>) \o b64encode(Utf8Encode(d)) : d \in Credentials}
  \cup {S(<<"B", "a", "s", "i", "c", " ", "!">>) \o b64encode(Utf8Encode(d)) : d \in Credentials}
  \cup {S(<<"B", "a", "s", "i", "c", " ">>) \o b64encode(Utf8Encode(d)) \o S(<<" ", "t", "r", "a", "i", "l", "e", "r">>) :
          d \in Credentials}

OtherHeaders ==
  {<<>>, S(<<"D", "i", "g", "e", "s", "t", " ", "a", "b", "c">>), S(<<"B", "a", "s", "i", "c">>), S(<<"B", "a", "s", "i", "c", "Y", "Q", "=", "=">>), S(<<"b", "a", "s", "i", "c", " ", "Y", "Q", "=", "=">>),
   S(<<" ", "B", "a", "s", "i", "c", " ", "Y", "Q", "=", "=">>), S(<<"B", "e", "a", "r", "e", "r", " ", "Y", "Q", "=", "=">>)}

MerchantIds == {<<>>, S(<<"6", "8", "9", "4", "4", "5", "0", "8", "c", "a", "b", "3", "0", "2", "2", "1", "1", "a", "d", "2", "1", "b", "0", "6">>), S(<<"m", ";", "1">>), EAcute}
OrderIds == {<<>>, S(<<"b", "o", "o", "k", "i", "n", "g", "_", "1", "2", "3">>), S(<<"o", "=", "1">>)}
ReturnUrls == {<<>>, S(<<"h", "t", "t", "p", "s", ":", "/", "/", "m", "y", "a", "p", "p", ".", "c", "o", "m", "/", "o", "k">>)}
ServiceIds == {<<>>, S(<<"3">>), S(<<"2", "3">>), S(<<"4", "5", "6">>)}
ClickMerchantIds == {<<>>, S(<<"6", "7", "8", "9", "0">>)}
TransactionParams == {<<>>, S(<<"b", "o", "o", "k", "i", "n", "g", "_", "4", "5", "6">>)}
MerchantUserIds == {None, Some(<<>>), Some(S(<<"u", "1">>))}
ClickTransIds == SeqsUpTo({Ord("1"), Ord("2")}, MaxIdLen) \cup {S(<<"1", "2", "3">>)}
MerchantTransIds == {<<>>, S(<<"m", "1">>)}
Actions == {0, 1}
SignTimes == {S(<<"2", "0", "2", "4", "-", "0", "1", "-", "0", "1">>)}
ApiKeys == {<<>>, S(<<"p", "k">>)}
TransactionIds == {<<>>, S(<<"t", "1">>), S(<<"t", "1", "1">>)}
Currencies == {S(<<"U", "Z", "S">>), S(<<"U", "S", "D">>)}
PaymentUuids == SeqsUpTo({Ord("u"), Ord("-")}, MaxUuidLen) \cup {S(<<"u", "u", "i", "d", "-", "1">>)}
Statuses == {<<>>, S(<<"s", "u", "c", "c", "e", "e", "d", "e", "d">>), S(<<"f", "a", "i", "l", "e", "d">>), S(<<"u", "s", "u", "c", "c", "e", "e", "d", "e", "d">>)}

\* s with its hex letters in upper case.
UpperHex(s) ==
  [i \in 1..Len(s) |-> IF s[i] >= 97 /\ s[i] <= 102 THEN s[i] - 32 ELSE s[i]]

\* s with the character at position i changed to another hex digit.
FlipChar(s, i) == [s EXCEPT ![i] = IF s[i] = 48 THEN 49 ELSE 48]

\* Signatures a sender may put beside fields whose canonical input is text:
\* the digest itself, its upper-case form, the digest with its first or its
\* last character changed, one without its last character, and none.
SignaturesFor(digest) ==
  {digest, UpperHex(digest), FlipChar(digest, 1), FlipChar(digest, Len(digest)),
   SubSeq(digest, 1, Len(digest) - 1), <<>>}

(***************************************************************************)
(* The state machine: one invocation at a time.  A caller invokes a tool    *)
(* with arguments of its choice, the tool returns its dict, and the caller *)
(* takes it; nothing of an invocation outlives it.                         *)
(***************************************************************************)

Init ==
  /\ op = "none"
  /\ args = <<>>
  /\ result = <<>>

CallPaymeGenerateCheckoutUrl ==
  /\ op = "none"
  /\ \E merchant_id \in MerchantIds, amount_text \in AmountTexts,
     order_id \in OrderIds, return_url \in ReturnUrls,
     is_production \in BOOLEAN :
    LET amount == ParseFloat(amount_text) IN
    /\ op' = "payme_generate_checkout_url"
    /\ args' = [merchant_id |-> merchant_id, amount_text |-> amount_text,
                amount |-> amount, order_id |-> order_id,
                return_url |-> return_url, is_production |-> is_production]
    /\ result' = payme_generate_checkout_url(merchant_id, amount, order_id,
                                             return_url, is_production)

CallPaymeVerifyWebhookAuth ==
  /\ op = "none"
  /\ \E authorization_header \in BasicHeaders \cup OtherHeaders,
     merchant_key \in Secrets :
    /\ op' = "payme_verify_webhook_auth"
    /\ args' = [authorization_header |-> authorization_header,
                merchant_key |-> merchant_key]
    /\ result' = payme_verify_webhook_auth(authorization_header, merchant_key)

CallClickGenerateInvoiceUrl ==
  /\ op = "none"
  /\ \E service_id \in ServiceIds, merchant_id \in ClickMerchantIds,
     amount_text \in AmountTexts, transaction_param \in TransactionParams,
     return_url \in ReturnUrls, merchant_user_id \in MerchantUserIds,
     is_production \in BOOLEAN :
    LET amount == ParseFloat(amount_text) IN
    /\ op' = "click_generate_invoice_url"
    /\ args' = [service_id |-> service_id, merchant_id |-> merchant_id,
                amount_text |-> amount_text, amount |-> amount,
                transaction_param |-> transaction_param,
                return_url |-> return_url,
                merchant_user_id |-> merchant_user_id,
                is_production |-> is_production]
    /\ result' = click_generate_invoice_url(service_id, merchant_id, amount,
                                            transaction_param, return_url,
                                            merchant_user_id, is_production)

\* The sender signs the fields as it sent them (the amount as the text it
\* sent); a forger may also send a signature made from the receiver's own
\* rendering of the fields.
CallClickVerifyWebhookSignature ==
  /\ op = "none"
  /\ \E click_trans_id \in ClickTransIds, service_id \in ServiceIds,
     secret_key \in SigningSecrets, merchant_trans_id \in MerchantTransIds,
     amount_text \in WebhookAmountTexts, action \in Actions,
     sign_time \in SignTimes :
    LET amount == ParseFloat(amount_text)
        sent   == md5_hexdigest(Utf8Encode(Concat(
                    <<click_trans_id, service_id, secret_key,
                      merchant_trans_id, amount_text, IntToStr(action),
                      sign_time>>)))
        own    == md5_hexdigest(Utf8Encode(Concat(
                    <<click_trans_id, service_id, secret_key,
                      merchant_trans_id, FloatToStr(amount), IntToStr(action),
                      sign_time>>)))
    IN
    \E received_sign_string \in SignaturesFor(sent) \cup SignaturesFor(own) :
      /\ op' = "click_verify_webhook_signature"
      /\ args' = [click_trans_id |-> click_trans_id,
                  service_id |-> service_id, secret_key |-> secret_key,
                  merchant_trans_id |-> merchant_trans_id,
                  amount_text |-> amount_text, amount |-> amount,
                  action |-> action, sign_time |-> sign_time,
                  received_sign_string |-> received_sign_string]
      /\ result' = click_verify_webhook_signature(
                     click_trans_id, service_id, secret_key,
                     merchant_trans_id, amount, action, sign_time,
                     received_sign_string)

CallOctoCreatePayment ==
  /\ op = "none"
  /\ \E api_key \in ApiKeys, secret_key \in Secrets,
     amount_text \in AmountTexts, transaction_id \in TransactionIds,
     return_url \in ReturnUrls, auto_capture \in BOOLEAN,
     currency \in Currencies, is_production \in BOOLEAN :
    LET amount == ParseFloat(amount_text) IN
    /\ op' = "octo_create_payment"
    /\ args' = [api_key |-> api_key, secret_key |-> secret_key,
                amount_text |-> amount_text, amount |-> amount,
                transaction_id |-> transaction_id, return_url |-> return_url,
                auto_capture |-> auto_capture, currency |-> currency,
                is_production |-> is_production]
    /\ result' = octo_create_payment(api_key, secret_key, amount,
                                     transaction_id, return_url, auto_capture,
                                     currency, is_production)

\* The sender signs the fields it sends; a caller may also pass the MD5 of
\* them, or the signature octo_create_payment made for a payment with this
\* identifier under the same secret.
CallOctoVerifyWebhookSignature ==
  /\ op = "none"
  /\ \E octo_payment_uuid \in PaymentUuids, status \in Statuses,
     secret_key \in SigningSecrets :
    LET sent   == sha256_hexdigest(Utf8Encode(Concat(
                    <<octo_payment_uuid, status, secret_key>>)))
        md5    == md5_hexdigest(Utf8Encode(Concat(
                    <<octo_payment_uuid, status, secret_key>>)))
        signed == {OctoPaymentSignature(octo_payment_uuid,
                                        ParseFloat(amount_text), currency,
                                        secret_key) :
                     amount_text \in WebhookAmountTexts,
                     currency \in Currencies}
    IN
    \E received_signature \in SignaturesFor(sent) \cup {md5} \cup signed :
      /\ op' = "octo_verify_webhook_signature"
      /\ args' = [octo_payment_uuid |-> octo_payment_uuid,
                  status |-> status,
                  received_signature |-> received_signature,
                  secret_key |-> secret_key]
      /\ result' = octo_verify_webhook_signature(
                     octo_payment_uuid, status, received_signature, secret_key)

\* The caller takes the returned dict; the invocation's locals are gone.
Return ==
  /\ op # "none"
  /\ op' = "none"
  /\ args' = <<>>
  /\ result' = <<>>

Next ==
  \/ CallPaymeGenerateCheckoutUrl
  \/ CallPaymeVerifyWebhookAuth
  \/ CallClickGenerateInvoiceUrl
  \/ CallClickVerifyWebhookSignature
  \/ CallOctoCreatePayment
  \/ CallOctoVerifyWebhookSignature
  \/ Return

Spec == Init /\ [][Next]_vars

(***************************************************************************)
(* Several callers at once.  The server runs every invocation of a tool in *)
(* a frame of its own: the tool's parameters and locals.  Here op, args    *)
(* and result hold one entry per caller: the tool the caller's invocation  *)
(* is in, the parameters bound in its frame, and the dict it returned      *)
(* (<<>> while the body has not returned).  Steps of different callers     *)
(* interleave in any order.                                                *)
(***************************************************************************)

\* Bound: the callers that invoke tools at the same time.
NumCallers == 2

Callers == 1..NumCallers

\* The invocations the callers make, as the arguments of each tool.
PaymeCheckoutCalls ==
  {[merchant_id |-> S(<<"6", "8", "9", "4", "4", "5", "0", "8", "c", "a", "b", "3", "0", "2", "2", "1", "1", "a", "d", "2", "1", "b", "0", "6">>), amount_text |-> t,
    amount |-> ParseFloat(t), order_id |-> S(<<"b", "o", "o", "k", "i", "n", "g", "_", "1", "2", "3">>),
    return_url |-> S(<<"h", "t", "t", "p", "s", ":", "/", "/", "m", "y", "a", "p", "p", ".", "c", "o", "m", "/", "o", "k">>), is_production |-> FALSE] :
     t \in {S(<<"1", "0", "0", "0">>), S(<<"0", ".", "2", "9">>)}}

PaymeAuthCalls ==
  {[authorization_header |-> h, merchant_key |-> S(<<"s", "3", "c", "r", "e", "t">>)] :
     h \in {S(<<"B", "a", "s", "i", "c", " ">>) \o b64encode(Utf8Encode(S(<<"m", "1", ":", "s", "3", "c", "r", "e", "t">>))), S(<<"D", "i", "g", "e", "s", "t", " ", "a", "b", "c">>)}}

ClickInvoiceCalls ==
  {[service_id |-> S(<<"4", "5", "6">>), merchant_id |-> S(<<"6", "7", "8", "9", "0">>),
    amount_text |-> S(<<"1", "0", "0", "0", ".", "5", "0">>), amount |-> ParseFloat(S(<<"1", "0", "0", "0", ".", "5", "0">>)),
    transaction_param |-> S(<<"b", "o", "o", "k", "i", "n", "g", "_", "4", "5", "6">>),
    return_url |-> S(<<"h", "t", "t", "p", "s", ":", "/", "/", "m", "y", "a", "p", "p", ".", "c", "o", "m", "/", "o", "k">>), merchant_user_id |-> u,
    is_production |-> TRUE] :
     u \in {None, Some(S(<<"u", "1">>))}}

ClickWebhookCalls ==
  {[click_trans_id |-> S(<<"1", "2", "3">>), service_id |-> S(<<"4", "5", "6">>),
    secret_key |-> S(<<"s", "3", "c", "r", "e", "t">>), merchant_trans_id |-> S(<<"m", "1">>),
    amount_text |-> S(<<"1", "0", "0", "0", ".", "5", "0">>), amount |-> ParseFloat(S(<<"1", "0", "0", "0", ".", "5", "0">>)),
    action |-> 1, sign_time |-> S(<<"2", "0", "2", "4", "-", "0", "1", "-", "0", "1">>), received_sign_string |-> r] :
     r \in {md5_hexdigest(Utf8Encode(S(<<"1", "2", "3", "4", "5", "6", "s", "3", "c", "r", "e", "t", "m", "1", "1", "0", "0", "0", ".", "5", "1", "2", "0", "2", "4", "-", "0", "1", "-", "0", "1">>))), <<>>}}

OctoPaymentCalls ==
  {[api_key |-> S(<<"p", "k">>), secret_key |-> S(<<"k">>), amount_text |-> S(<<"1", "0", "0", "0">>),
    amount |-> ParseFloat(S(<<"1", "0", "0", "0">>)), transaction_id |-> S(<<"t", "1">>),
    return_url |-> S(<<"h", "t", "t", "p", "s", ":", "/", "/", "m", "y", "a", "p", "p", ".", "c", "o", "m", "/", "o", "k">>), auto_capture |-> TRUE,
    currency |-> S(<<"U", "Z", "S">>), is_production |-> p] :
     p \in BOOLEAN}

OctoWebhookCalls ==
  {[octo_payment_uuid |-> S(<<"u", "u", "i", "d", "-", "1">>), status |-> s,
    received_signature |-> sha256_hexdigest(Utf8Encode(S(<<"u", "u", "i", "d", "-", "1", "s", "u", "c", "c", "e", "e", "d", "e", "d", "k">>))),
    secret_key |-> S(<<"k">>)] :
     s \in {S(<<"s", "u", "c", "c", "e", "e", "d", "e", "d">>), S(<<"f", "a", "i", "l", "e", "d">>)}}

\* What the body of a tool returns for the parameters a bound in its frame.
Handler(tool, a) ==
  CASE tool = "payme_generate_checkout_url" ->
         payme_generate_checkout_url(a.merchant_id, a.amount, a.order_id,
                                     a.return_url, a.is_production)
    [] tool = "payme_verify_webhook_auth" ->
         payme_verify_webhook_auth(a.authorization_header, a.merchant_key)
    [] tool = "click_generate_invoice_url" ->
         click_generate_invoice_url(a.service_id, a.merchant_id, a.amount,
                                    a.transaction_param, a.return_url,
                                    a.merchant_user_id, a.is_production)
    [] tool = "click_verify_webhook_signature" ->
         click_verify_webhook_signature(a.click_trans_id, a.service_id,
                                        a.secret_key, a.merchant_trans_id,
                                        a.amount, a.action, a.sign_time,
                                        a.received_sign_string)
    [] tool = "octo_create_payment" ->
         octo_create_payment(a.api_key, a.secret_key, a.amount,
                             a.transaction_id, a.return_url, a.auto_capture,
                             a.currency, a.is_production)
    [] tool = "octo_verify_webhook_signature" ->
         octo_verify_webhook_signature(a.octo_payment_uuid, a.status,
                                       a.received_signature, a.secret_key)

ConcurrentInit ==
  /\ op = [c \in Callers |-> "none"]
  /\ args = [c \in Callers |-> <<>>]
  /\ result = [c \in Callers |-> <<>>]

\* Caller c enters a tool: a frame is made and the arguments are bound in it.
InvokePaymeGenerateCheckoutUrl(c) ==
  /\ op[c] = "none"
  /\ \E a \in PaymeCheckoutCalls :
       /\ op' = [op EXCEPT ![c] = "payme_generate_checkout_url"]
       /\ args' = [args EXCEPT ![c] = a]
       /\ result' = [result EXCEPT ![c] = <<>>]

InvokePaymeVerifyWebhookAuth(c) ==
  /\ op[c] = "none"
  /\ \E a \in PaymeAuthCalls :
       /\ op' = [op EXCEPT ![c] = "payme_verify_webhook_auth"]
       /\ args' = [args EXCEPT ![c] = a]
       /\ result' = [result EXCEPT ![c] = <<>>]

InvokeClickGenerateInvoiceUrl(c) ==
  /\ op[c] = "none"
  /\ \E a \in ClickInvoiceCalls :
       /\ op' = [op EXCEPT ![c] = "click_generate_invoice_url"]
       /\ args' = [args EXCEPT ![c] = a]
       /\ result' = [result EXCEPT ![c] = <<>>]

InvokeClickVerifyWebhookSignature(c) ==
  /\ op[c] = "none"
  /\ \E a \in ClickWebhookCalls :
       /\ op' = [op EXCEPT ![c] = "click_verify_webhook_signature"]
       /\ args' = [args EXCEPT ![c] = a]
       /\ result' = [result EXCEPT ![c] = <<>>]

InvokeOctoCreatePayment(c) ==
  /\ op[c] = "none"
  /\ \E a \in OctoPaymentCalls :
       /\ op' = [op EXCEPT ![c] = "octo_create_payment"]
       /\ args' = [args EXCEPT ![c] = a]
       /\ result' = [result EXCEPT ![c] = <<>>]

InvokeOctoVerifyWebhookSignature(c) ==
  /\ op[c] = "none"
  /\ \E a \in OctoWebhookCalls :
       /\ op' = [op EXCEPT ![c] = "octo_verify_webhook_signature"]
       /\ args' = [args EXCEPT ![c] = a]
       /\ result' = [result EXCEPT ![c] = <<>>]

\* The body of caller c's invocation runs to its return statement.
Run(c) ==
  /\ op[c] # "none"
  /\ result[c] = <<>>
  /\ result' = [result EXCEPT ![c] = Handler(op[c], args[c])]
  /\ UNCHANGED <<op, args>>

\* Caller c takes the returned dict; the frame is gone.
Leave(c) ==
  /\ op[c] # "none"
  /\ result[c] # <<>>
  /\ op' = [op EXCEPT ![c] = "none"]
  /\ args' = [args EXCEPT ![c] = <<>>]
  /\ result' = [result EXCEPT ![c] = <<>>]

ConcurrentNext ==
  \E c \in Callers :
    \/ InvokePaymeGenerateCheckoutUrl(c)
    \/ InvokePaymeVerifyWebhookAuth(c)
    \/ InvokeClickGenerateInvoiceUrl(c)
    \/ InvokeClickVerifyWebhookSignature(c)
    \/ InvokeOctoCreatePayment(c)
    \/ InvokeOctoVerifyWebhookSignature(c)
    \/ Run(c)
    \/ Leave(c)

ConcurrentSpec == ConcurrentInit /\ [][ConcurrentNext]_vars


(***************************************************************************)
(* Callers that send anything: amounts that are no number, a header that   *)
(* is missing or no text, empty strings.  One invocation at a time, as in  *)
(* Spec.                                                                   *)
(***************************************************************************)

AnyAmounts == {ParseFloat(t) : t \in AmountTexts} \cup {Inf, NegInf, NaN}

AnyHeaders ==
  {PyObject("NoneType"), PyObject("int")}
  \cup {PyStr(h) : h \in OtherHeaders \cup {S(<<"B", "a", "s", "i", "c", " ">>), S(<<"B", "a", "s", "i", "c", " ", "!">>)}}
  \cup {PyStr(S(<<"B", "a", "s", "i", "c", " ">>) \o b64encode(Utf8Encode(d))) : d \in Credentials}

TryPaymeGenerateCheckoutUrl ==
  /\ op = "none"
  /\ \E merchant_id \in MerchantIds, amount \in AnyAmounts,
     order_id \in OrderIds, return_url \in ReturnUrls,
     is_production \in BOOLEAN :
    /\ op' = "payme_generate_checkout_url"
    /\ args' = [merchant_id |-> merchant_id, amount |-> amount,
                order_id |-> order_id, return_url |-> return_url,
                is_production |-> is_production]
    /\ result' = payme_generate_checkout_url(merchant_id, amount, order_id,
                                             return_url, is_production)

TryPaymeVerifyWebhookAuth ==
  /\ op = "none"
  /\ \E authorization_header \in AnyHeaders, merchant_key \in Secrets :
    /\ op' = "payme_verify_webhook_auth"
    /\ args' = [authorization_header |-> authorization_header,
                merchant_key |-> merchant_key]
    /\ result' = PaymeVerifyWebhookAuthOfObject(authorization_header,
                                                merchant_key)

TryClickGenerateInvoiceUrl ==
  /\ op = "none"
  /\ \E service_id \in {<<>>, S(<<"4", "5", "6">>)}, merchant_id \in ClickMerchantIds,
     amount \in AnyAmounts, transaction_param \in TransactionParams,
     merchant_user_id \in MerchantUserIds, is_production \in BOOLEAN :
    /\ op' = "click_generate_invoice_url"
    /\ args' = [service_id |-> service_id, merchant_id |-> merchant_id,
                amount |-> amount, transaction_param |-> transaction_param,
                return_url |-> <<>>, merchant_user_id |-> merchant_user_id,
                is_production |-> is_production]
    /\ result' = click_generate_invoice_url(service_id, merchant_id, amount,
                                            transaction_param, <<>>,
                                            merchant_user_id, is_production)

TryClickVerifyWebhookSignature ==
  /\ op = "none"
  /\ \E click_trans_id \in {<<>>, S(<<"1", "2", "3">>)}, service_id \in {<<>>, S(<<"4", "5", "6">>)},
     secret_key \in Secrets, merchant_trans_id \in MerchantTransIds,
     amount \in AnyAmounts, action \in Actions, sign_time \in {<<>>} :
    LET own == md5_hexdigest(Utf8Encode(ClickSignString(
                 click_trans_id, service_id, secret_key, merchant_trans_id,
                 amount, action, sign_time)))
    IN
    \E received_sign_string \in {<<>>, own} :
      /\ op' = "click_verify_webhook_signature"
      /\ args' = [click_trans_id |-> click_trans_id,
                  service_id |-> service_id, secret_key |-> secret_key,
                  merchant_trans_id |-> merchant_trans_id, amount |-> amount,
                  action |-> action, sign_time |-> sign_time,
                  received_sign_string |-> received_sign_string]
      /\ result' = click_verify_webhook_signature(
                     click_trans_id, service_id, secret_key,
                     merchant_trans_id, amount, action, sign_time,
                     received_sign_string)

TryOctoCreatePayment ==
  /\ op = "none"
  /\ \E api_key \in ApiKeys, secret_key \in Secrets, amount \in AnyAmounts,
     transaction_id \in TransactionIds, auto_capture \in BOOLEAN,
     currency \in Currencies \cup {<<>>}, is_production \in BOOLEAN :
    /\ op' = "octo_create_payment"
    /\ args' = [api_key |-> api_key, secret_key |-> secret_key,
                amount |-> amount, transaction_id |-> transaction_id,
                return_url |-> <<>>, auto_capture |-> auto_capture,
                currency |-> currency, is_production |-> is_production]
    /\ result' = octo_create_payment(api_key, secret_key, amount,
                                     transaction_id, <<>>, auto_capture,
                                     currency, is_production)

TryOctoVerifyWebhookSignature ==
  /\ op = "none"
  /\ \E octo_payment_uuid \in {<<>>, S(<<"u", "u", "i", "d", "-", "1">>)}, status \in Statuses,
     secret_key \in Secrets :
    LET own == sha256_hexdigest(Utf8Encode(OctoWebhookSignString(
                 octo_payment_uuid, status, secret_key)))
    IN
    \E received_signature \in {<<>>, own} :
      /\ op' = "octo_verify_webhook_signature"
      /\ args' = [octo_payment_uuid |-> octo_payment_uuid,
                  status |-> status,
                  received_signature |-> received_signature,
                  secret_key |-> secret_key]
      /\ result' = octo_verify_webhook_signature(
                     octo_payment_uuid, status, received_signature, secret_key)

AnyArgumentsNext ==
  \/ TryPaymeGenerateCheckoutUrl
  \/ TryPaymeVerifyWebhookAuth
  \/ TryClickGenerateInvoiceUrl
  \/ TryClickVerifyWebhookSignature
  \/ TryOctoCreatePayment
  \/ TryOctoVerifyWebhookSignature
  \/ Return

AnyArgumentsSpec == Init /\ [][AnyArgumentsNext]_vars


(***************************************************************************)
(* Claims                                                                  *)
(***************************************************************************)

\* The fields of a Click webhook as the sender wrote them, joined with nothing
\* between them: click_trans_id, service_id, secret, merchant_trans_id,
\* amount, action, sign_time.
ClickCanonicalInput ==
  args.click_trans_id \o args.service_id \o args.secret_key
  \o args.merchant_trans_id \o args.amount_text \o IntToStr(args.action)
  \o args.sign_time

\* C1: Click verify_webhook returns valid = true if and only if the received
\* signature is exactly the lowercase-hex MD5 of the separator-free
\* concatenation click_trans_id, service_id, secret, merchant_trans_id,
\* amount, action, sign_time, the amount being the text the sender wrote
\* (amount "1000" signs "...1000...").
C1_ClickValidIffMd5OfFields ==
  op = "click_verify_webhook_signature" =>
    (result.valid <=>
       args.received_sign_string
         = md5_hexdigest(Utf8Encode(ClickCanonicalInput)))

\* C2: in Click verify_webhook the amount contributes to the signature input
\* exactly the text the caller supplied ("1000" contributes "1000", with no
\* decimal point or zeros added): the signature the tool expects is the one
\* a provider computes over that text.
C2_ClickAmountSignedAsSupplied ==
  op = "click_verify_webhook_signature" =>
    result.expected_signature = md5_hexdigest(Utf8Encode(ClickCanonicalInput))

\* C3: Octo verify_webhook returns valid = true if and only if the received
\* signature is exactly the lowercase-hex SHA-256 of payment_uuid, status,
\* secret joined with nothing between them; a valid signature with any one
\* character changed is not valid.
C3_OctoValidIffSha256OfFields ==
  op = "octo_verify_webhook_signature" =>
    LET digest == sha256_hexdigest(Utf8Encode(
                    args.octo_payment_uuid \o args.status \o args.secret_key))
    IN  /\ result.valid <=> args.received_signature = digest
        /\ (\E i \in 1..Len(digest) :
              args.received_signature = FlipChar(digest, i)) => ~result.valid

\* Scenario 3 of the specification: uuid-1, succeeded, secret k, and the
\* SHA-256 of "uuid-1succeededk" is accepted.
C3_Witness ==
  /\ op = "octo_verify_webhook_signature"
  /\ args.octo_payment_uuid = S(<<"u", "u", "i", "d", "-", "1">>)
  /\ args.status = S(<<"s", "u", "c", "c", "e", "e", "d", "e", "d">>)
  /\ args.secret_key = S(<<"k">>)
  /\ args.received_signature
       = sha256_hexdigest(Utf8Encode(S(<<"u", "u", "i", "d", "-", "1", "s", "u", "c", "c", "e", "e", "d", "e", "d", "k">>)))
  /\ result.valid

\* sub occurs in s as a run of consecutive characters.
IsSubstring(sub, s) ==
  \E i \in 1..(Len(s) + 1) : \E j \in (i - 1)..Len(s) : SubSeq(s, i, j) = sub

\* The header that carries the credential d: "Basic " and the base64 of the
\* UTF-8 form of d.
CredentialHeader ==
  [d \in Credentials |-> S(<<"B", "a", "s", "i", "c", " ">>) \o b64encode(Utf8Encode(d))]


\* C4: for a header "Basic " followed by the base64 of the UTF-8 form of a
\* string d, Payme verify_webhook returns valid = true exactly when the
\* secret occurs in d as a substring.
C4_PaymeValidIffSecretInCredential ==
  op = "payme_verify_webhook_auth" =>
    \A d \in Credentials :
      args.authorization_header = CredentialHeader[d] =>
        (result.valid <=> IsSubstring(args.merchant_key, d))

\* "Basic " and the base64 of "m1:s3cret", checked against the secret
\* "s3cret", which is not at the start of the credential: valid.
C4_Witness ==
  /\ op = "payme_verify_webhook_auth"
  /\ args.authorization_header
       = S(<<"B", "a", "s", "i", "c", " ">>) \o b64encode(Utf8Encode(S(<<"m", "1", ":", "s", "3", "c", "r", "e", "t">>)))
  /\ args.merchant_key = S(<<"s", "3", "c", "r", "e", "t">>)
  /\ result.valid

\* h begins with the six characters "Basic ".
HasBasicPrefix(h) ==
  /\ Len(h) >= 6
  /\ h[1] = Ord("B") /\ h[2] = Ord("a") /\ h[3] = Ord("s")
  /\ h[4] = Ord("i") /\ h[5] = Ord("c") /\ h[6] = Ord(" ")

\* C5: every authorization header that does not start with the literal
\* prefix "Basic " yields valid = false with the wrong-auth-scheme reason,
\* whatever the secret.
C5_PaymeWrongSchemeRejected ==
  (op = "payme_verify_webhook_auth" /\ ~HasBasicPrefix(args.authorization_header))
    => result = [valid  |-> FALSE,
                 reason |-> <<"Authorization must use Basic authentication">>]

\* "Digest abc" (scenario 4 of the specification) is refused for the secret
\* "a", which its text holds.
C5_Witness ==
  /\ op = "payme_verify_webhook_auth"
  /\ args.authorization_header = S(<<"D", "i", "g", "e", "s", "t", " ", "a", "b", "c">>)
  /\ args.merchant_key = S(<<"a">>)
  /\ result.valid = FALSE
  /\ result.reason = <<"Authorization must use Basic authentication">>

\* A base64 token in the standard form (RFC 4648): characters of the
\* alphabet only, closed by at most two "=", a multiple of four in all.
WellFormedBase64(t) ==
  /\ Len(t) % 4 = 0
  /\ \A i \in 1..Len(t) :
       \/ B64Val(t[i]) < 64
       \/ /\ t[i] = 61
          /\ i >= Len(t) - 1
          /\ \A j \in i..Len(t) : t[j] = 61

\* The text of a header after "Basic ", up to the next space.
TokenOf(h) ==
  LET rest == SubSeq(h, 7, Len(h))
      n    == CHOOSE k \in 0..Len(rest) :
                /\ \A j \in 1..k : rest[j] # 32
                /\ k < Len(rest) => rest[k + 1] = 32
  IN  SubSeq(rest, 1, n)

\* C6: whenever the token after "Basic " is malformed base64, or decodes to
\* bytes that are not valid UTF-8, Payme verify_webhook returns
\* valid = false with a decode-error reason, whatever the secret.
C6_PaymeMalformedTokenRejected ==
  (/\ op = "payme_verify_webhook_auth"
   /\ HasBasicPrefix(args.authorization_header)
   /\ \/ ~WellFormedBase64(TokenOf(args.authorization_header))
      \/ ~Utf8Decode(b64decode(TokenOf(args.authorization_header)).b).ok)
    => /\ result.valid = FALSE
       /\ DOMAIN result = {"valid", "reason"}
       /\ result.reason[1] = "Error verifying authorization: "

\* The invariant of a CheckoutRequest: a positive amount and non-empty
\* required identifiers.
ValidCheckoutRequest ==
  /\ args.amount > 0
  /\ op = "payme_generate_checkout_url" =>
       args.merchant_id # <<>> /\ args.order_id # <<>>
  /\ op = "click_generate_invoice_url" =>
       /\ args.service_id # <<>>
       /\ args.merchant_id # <<>>
       /\ args.transaction_param # <<>>
  /\ op = "octo_create_payment" =>
       /\ args.api_key # <<>>
       /\ args.secret_key # <<>>
       /\ args.transaction_id # <<>>

\* C7: checkout encoding (Payme and Click encode_checkout, Octo
\* encode_payment) never returns success = true for a request with an
\* amount <= 0 or an empty required identifier.
C7_CheckoutRejectsInvalidRequest ==
  (/\ op \in {"payme_generate_checkout_url", "click_generate_invoice_url",
              "octo_create_payment"}
   /\ ~ValidCheckoutRequest)
    => result.success = FALSE

\* amount * 100 rounded to the nearest integer, for an amount (in
\* thousandths) that is not half-way between two integers.
NearestMinorUnits(m) ==
  LET a == IF m < 0 THEN -m ELSE m
      n == IF a % 10 > 5 THEN (a \div 10) + 1 ELSE a \div 10
  IN  IF m < 0 THEN -n ELSE n

\* C8: Payme encode_checkout converts the amount to minor units by rounding
\* amount * 100 to the nearest integer, not by truncating: 50000.00 gives
\* 5000000 and 0.006 gives 1.
C8_PaymeMinorUnitsRounded ==
  (/\ op = "payme_generate_checkout_url"
   /\ args.amount % 10 # 5)
    => result.amount_tiyin = NearestMinorUnits(args.amount)

\* The parameter string of a Payme checkout as the provider reads it:
\* m=<merchant_id>;ac.order_id=<order_id>;a=<amount_minor>;c=<return_url>,
\* the amount in minor units being the one the result reports.
PaymeWireParams ==
  S(<<"m", "=">>) \o args.merchant_id \o S(<<";", "a", "c", ".", "o", "r", "d", "e", "r", "_", "i", "d", "=">>) \o args.order_id
  \o S(<<";", "a", "=">>) \o IntToStr(result.amount_tiyin) \o S(<<";", "c", "=">>) \o args.return_url

\* C9: Payme encode_checkout returns the environment's base URL
\* (https://checkout.paycom.uz/ in production, https://checkout.test.paycom.uz/
\* otherwise) followed by the standard padded base64 of the parameter
\* string, and base64-decoding the returned encoded segment gives back
\* exactly the parameter string.
C9_PaymeUrlIsBaseAndBase64OfParams ==
  op = "payme_generate_checkout_url" =>
    LET base    == IF args.is_production
                   THEN S(<<"h", "t", "t", "p", "s", ":", "/", "/", "c", "h", "e", "c", "k", "o", "u", "t", ".", "p", "a", "y", "c", "o", "m", ".", "u", "z", "/">>)
                   ELSE S(<<"h", "t", "t", "p", "s", ":", "/", "/", "c", "h", "e", "c", "k", "o", "u", "t", ".", "t", "e", "s", "t", ".", "p", "a", "y", "c", "o", "m", ".", "u", "z", "/">>)
        segment == result.encoded_params
        decoded == b64decode(segment)
    IN  /\ result.payment_url = base \o segment
        /\ WellFormedBase64(segment)
        /\ decoded.ok
        /\ decoded.b = Utf8Encode(PaymeWireParams)
        /\ Utf8Decode(decoded.b) = [ok |-> TRUE, s |-> PaymeWireParams]

\* Scenario 1 of the specification: the sandbox checkout of booking_123 for
\* 50000.00, 5000000 in minor units.
C9_Witness ==
  /\ op = "payme_generate_checkout_url"
  /\ args.merchant_id = S(<<"6", "8", "9", "4", "4", "5", "0", "8", "c", "a", "b", "3", "0", "2", "2", "1", "1", "a", "d", "2", "1", "b", "0", "6">>)
  /\ args.amount_text = S(<<"5", "0", "0", "0", "0", ".", "0", "0">>)
  /\ args.order_id = S(<<"b", "o", "o", "k", "i", "n", "g", "_", "1", "2", "3">>)
  /\ args.return_url = S(<<"h", "t", "t", "p", "s", ":", "/", "/", "m", "y", "a", "p", "p", ".", "c", "o", "m", "/", "o", "k">>)
  /\ ~args.is_production
  /\ result.amount_tiyin = 5000000
  /\ StartsWith(result.payment_url, S(<<"h", "t", "t", "p", "s", ":", "/", "/", "c", "h", "e", "c", "k", "o", "u", "t", ".", "t", "e", "s", "t", ".", "p", "a", "y", "c", "o", "m", ".", "u", "z", "/", "b", "T", "0", "2">>))

\* C10: a verification result exposes the expected signature only on
\* success: whenever Click or Octo verify_webhook returns valid = false, the
\* result holds a redacted value, or none, in place of the expected
\* signature it computed.
C10_ExpectedSignatureHiddenOnFailure ==
  (/\ op \in {"click_verify_webhook_signature",
              "octo_verify_webhook_signature"}
   /\ ~result.valid)
    => \/ "expected_signature" \notin DOMAIN result
       \/ result.expected_signature
            # (IF op = "click_verify_webhook_signature"
               THEN md5_hexdigest(Utf8Encode(ClickSignString(
                      args.click_trans_id, args.service_id, args.secret_key,
                      args.merchant_trans_id, args.amount, args.action,
                      args.sign_time)))
               ELSE sha256_hexdigest(Utf8Encode(OctoWebhookSignString(
                      args.octo_payment_uuid, args.status, args.secret_key))))

\* The credential a Payme header carries: the text its token decodes to,
\* when the token is base64 of UTF-8 text.
DecodedCredential(h) ==
  LET raw == b64decode(TokenOf(h))
  IN  IF raw.ok THEN Utf8Decode(raw.b) ELSE [ok |-> FALSE, s |-> <<>>]

\* C11: Payme verify_webhook returns the decoded credential in its result
\* only when valid = true; on every failure (wrong scheme, decode error,
\* secret not in the credential) the result holds no decoded text: it has
\* no such field, or the field holds the redaction mark "[hidden]", in
\* which the credential does not occur.
C11_PaymeDecodedEchoedOnlyWhenValid ==
  op = "payme_verify_webhook_auth" =>
    LET d == DecodedCredential(args.authorization_header)
    IN  /\ result.valid =>
             /\ HasBasicPrefix(args.authorization_header)
             /\ d.ok
             /\ result.decoded_auth = d.s
        /\ ~result.valid =>
             \/ "decoded_auth" \notin DOMAIN result
             \/ /\ result.decoded_auth = S(<<"[", "h", "i", "d", "d", "e", "n", "]">>)
                /\ d.s # <<>> => ~IsSubstring(d.s, result.decoded_auth)

\* "Basic " and the base64 of "m1:secret", checked against the secret
\* "s3cret": refused, and the credential is not in the result.
C11_Witness ==
  /\ op = "payme_verify_webhook_auth"
  /\ args.authorization_header = S(<<"B", "a", "s", "i", "c", " ">>) \o b64encode(Utf8Encode(S(<<"m", "1", ":", "s", "e", "c", "r", "e", "t">>)))
  /\ args.merchant_key = S(<<"s", "3", "c", "r", "e", "t">>)
  /\ result = [valid        |-> FALSE,
               decoded_auth |-> S(<<"[", "h", "i", "d", "d", "e", "n", "]">>),
               message      |-> "Invalid merchant key"]

\* s is written in lowercase hexadecimal digits.
IsLowerHex(s) ==
  \A i \in 1..Len(s) : (s[i] >= 48 /\ s[i] <= 57) \/ (s[i] >= 97 /\ s[i] <= 102)

\* The payload of an Octo payment: exactly the fields api_key, amount,
\* currency, transaction_id, return_url, auto_capture and signature, the
\* first six as the caller gave them, the signature the lowercase-hex
\* SHA-256 of transaction_id, the amount as a string, currency and secret
\* with nothing between them.
OctoPayloadIsSigned ==
  /\ DOMAIN result.payment_data
       = {"api_key", "amount", "currency", "transaction_id", "return_url",
          "auto_capture", "signature"}
  /\ result.payment_data.api_key = args.api_key
  /\ result.payment_data.amount = args.amount
  /\ result.payment_data.currency = args.currency
  /\ result.payment_data.transaction_id = args.transaction_id
  /\ result.payment_data.return_url = args.return_url
  /\ result.payment_data.auto_capture = args.auto_capture
  /\ result.payment_data.signature
       = sha256_hexdigest(Utf8Encode(
           args.transaction_id \o FloatToStr(args.amount) \o args.currency
           \o args.secret_key))
  /\ IsLowerHex(result.payment_data.signature)

\* C12: Octo encode_payment returns a payload of exactly the fields api_key,
\* amount, currency, transaction_id, return_url, auto_capture, signature,
\* the signature being the lowercase-hex SHA-256 of transaction_id, the
\* stringified amount, currency and secret with no separators, together
\* with the API endpoint of the environment:
\* https://api.octo.uz/v1/payment/init in production,
\* https://api.test.octo.uz/v1/payment/init in the sandbox.
C12_OctoPayloadSignedWithInitEndpoint ==
  op = "octo_create_payment" =>
    /\ OctoPayloadIsSigned
    /\ result.api_endpoint
         = (IF args.is_production
            THEN S(<<"h", "t", "t", "p", "s", ":", "/", "/", "a", "p", "i", ".", "o", "c", "t", "o", ".", "u", "z", "/", "v", "1", "/", "p", "a", "y", "m", "e", "n", "t", "/", "i", "n", "i", "t">>)
            ELSE S(<<"h", "t", "t", "p", "s", ":", "/", "/", "a", "p", "i", ".", "t", "e", "s", "t", ".", "o", "c", "t", "o", ".", "u", "z", "/", "v", "1", "/", "p", "a", "y", "m", "e", "n", "t", "/", "i", "n", "i", "t">>))

\* C12 as the specification words it: the endpoint returned is
\* https://api.octo.uz in production and https://api.test.octo.uz in the
\* sandbox.
C12_OctoEndpointIsHostOnly ==
  op = "octo_create_payment" =>
    /\ OctoPayloadIsSigned
    /\ result.api_endpoint
         = (IF args.is_production
            THEN S(<<"h", "t", "t", "p", "s", ":", "/", "/", "a", "p", "i", ".", "o", "c", "t", "o", ".", "u", "z">>)
            ELSE S(<<"h", "t", "t", "p", "s", ":", "/", "/", "a", "p", "i", ".", "t", "e", "s", "t", ".", "o", "c", "t", "o", ".", "u", "z">>))

\* The production payment t1 of 1000 UZS under the secret k: signed with
\* the SHA-256 of "t11000.0UZSk".
C12_Witness ==
  /\ op = "octo_create_payment"
  /\ args.transaction_id = S(<<"t", "1">>)
  /\ args.amount_text = S(<<"1", "0", "0", "0">>)
  /\ args.currency = S(<<"U", "Z", "S">>)
  /\ args.secret_key = S(<<"k">>)
  /\ args.is_production
  /\ result.payment_data.signature = sha256_hexdigest(Utf8Encode(S(<<"t", "1", "1", "0", "0", "0", ".", "0", "U", "Z", "S", "k">>)))
  /\ result.api_endpoint = S(<<"h", "t", "t", "p", "s", ":", "/", "/", "a", "p", "i", ".", "o", "c", "t", "o", ".", "u", "z", "/", "v", "1", "/", "p", "a", "y", "m", "e", "n", "t", "/", "i", "n", "i", "t">>)

\* C13: verification symmetry: Octo verify_webhook, given as
\* received_signature the value encode_payment computed for the same
\* payment (its identifier and the same secret, whatever the amount and the
\* currency), returns valid = true.
C13_OctoVerifyAcceptsEncodeSignature ==
  op = "octo_verify_webhook_signature" =>
    \A amount_text \in WebhookAmountTexts, currency \in Currencies :
      args.received_signature
        = octo_create_payment(<<>>, args.secret_key, ParseFloat(amount_text),
                              args.octo_payment_uuid, <<>>, TRUE, currency,
                              FALSE).payment_data.signature
      => result.valid

\* The five pairs every Click invoice URL carries, in their order, each as
\* key=value (the amount as Python writes the number), joined by "&".
ClickFivePairs ==
  S(<<"s", "e", "r", "v", "i", "c", "e", "_", "i", "d", "=">>) \o args.service_id
  \o S(<<"&", "m", "e", "r", "c", "h", "a", "n", "t", "_", "i", "d", "=">>) \o args.merchant_id
  \o S(<<"&", "a", "m", "o", "u", "n", "t", "=">>) \o FloatToStr(args.amount)
  \o S(<<"&", "t", "r", "a", "n", "s", "a", "c", "t", "i", "o", "n", "_", "p", "a", "r", "a", "m", "=">>) \o args.transaction_param
  \o S(<<"&", "r", "e", "t", "u", "r", "n", "_", "u", "r", "l", "=">>) \o args.return_url

\* C14: Click encode_checkout returns a URL equal to
\* https://my.click.uz/services/pay (the same in both environments), one
\* "?", then the pairs service_id, merchant_id, amount, transaction_param,
\* return_url as key=value joined by "&" in that order, and after them, when
\* the URL carries a merchant_user_id, the pair merchant_user_id=<value> of
\* the value supplied (it does for every non-empty value, and does not
\* when none was supplied).
C14_ClickUrlIsBaseAndOrderedPairs ==
  op = "click_generate_invoice_url" =>
    LET base     == S(<<"h", "t", "t", "p", "s", ":", "/", "/", "m", "y", ".", "c", "l", "i", "c", "k", ".", "u", "z", "/", "s", "e", "r", "v", "i", "c", "e", "s", "/", "p", "a", "y">>)
        without  == base \o S(<<"?">>) \o ClickFivePairs
        with     == without \o S(<<"&", "m", "e", "r", "c", "h", "a", "n", "t", "_", "u", "s", "e", "r", "_", "i", "d", "=">>) \o args.merchant_user_id.s
    IN  /\ result.invoice_url \in {without, with}
        /\ ~args.merchant_user_id.some => result.invoice_url = without
        /\ (args.merchant_user_id.some /\ args.merchant_user_id.s # <<>>)
             => result.invoice_url = with

\* The invoice of booking_456 for 1000.50 by the user u1, whose
\* merchant_user_id comes last.
C14_Witness ==
  /\ op = "click_generate_invoice_url"
  /\ args.service_id = S(<<"4", "5", "6">>)
  /\ args.merchant_id = S(<<"6", "7", "8", "9", "0">>)
  /\ args.amount_text = S(<<"1", "0", "0", "0", ".", "5", "0">>)
  /\ args.transaction_param = S(<<"b", "o", "o", "k", "i", "n", "g", "_", "4", "5", "6">>)
  /\ args.return_url = S(<<"h", "t", "t", "p", "s", ":", "/", "/", "m", "y", "a", "p", "p", ".", "c", "o", "m", "/", "o", "k">>)
  /\ args.merchant_user_id = Some(S(<<"u", "1">>))
  /\ args.is_production
  /\ result.invoice_url
       = S(<<"h", "t", "t", "p", "s", ":", "/", "/", "m", "y", ".", "c", "l", "i", "c", "k", ".", "u", "z", "/", "s", "e", "r", "v", "i", "c", "e", "s", "/", "p", "a", "y", "?", "s", "e", "r", "v", "i", "c", "e", "_", "i", "d", "=", "4", "5", "6", "&", "m", "e", "r", "c", "h", "a", "n", "t", "_", "i", "d", "=", "6", "7", "8", "9", "0", "&", "a", "m", "o", "u", "n", "t", "=", "1", "0", "0", "0", ".", "5", "&", "t", "r", "a", "n", "s", "a", "c", "t", "i", "o", "n", "_", "p", "a", "r", "a", "m", "=", "b", "o", "o", "k", "i", "n", "g", "_", "4", "5", "6", "&", "r", "e", "t", "u", "r", "n", "_", "u", "r", "l", "=", "h", "t", "t", "p", "s", ":", "/", "/", "m", "y", "a", "p", "p", ".", "c", "o", "m", "/", "o", "k", "&", "m", "e", "r", "c", "h", "a", "n", "t", "_", "u", "s", "e", "r", "_", "i", "d", "=", "u", "1">>)

\* C15: Click encode_checkout puts a merchant_user_id pair in the URL if and
\* only if the caller provided a merchant_user_id: every provided value, any
\* string, appears as merchant_user_id=<value> at the end, and with the
\* argument absent the URL has no merchant_user_id key.
C15_ClickMerchantUserIdIffProvided ==
  op = "click_generate_invoice_url" =>
    LET key  == S(<<"m", "e", "r", "c", "h", "a", "n", "t", "_", "u", "s", "e", "r", "_", "i", "d", "=">>)
        pair == S(<<"&">>) \o key \o args.merchant_user_id.s
        url  == result.invoice_url
    IN  /\ args.merchant_user_id.some =>
             /\ Len(url) >= Len(pair)
             /\ SubSeq(url, Len(url) - Len(pair) + 1, Len(url)) = pair
        /\ ~args.merchant_user_id.some => ~IsSubstring(key, url)

\* Caller c's invocation has returned and c holds the dict.
Returned(c) == op[c] # "none" /\ result[c] # <<>>

\* Two invocations of the same tool with the same arguments hold the same
\* dict, and the dict an invocation holds is the one its own arguments give,
\* whatever the other callers are doing.
SameArgumentsSameResult ==
  /\ \A c1 \in Callers, c2 \in Callers :
       (Returned(c1) /\ Returned(c2) /\ op[c1] = op[c2] /\ args[c1] = args[c2])
         => result[c1] = result[c2]
  /\ \A c \in Callers : Returned(c) => result[c] = Handler(op[c], args[c])

\* A step is one caller's: the tool, the arguments and the dict of every
\* other caller are as they were.
OnlyOwnFrameWritten ==
  \E c \in Callers :
    \A d \in Callers \ {c} :
      op'[d] = op[d] /\ args'[d] = args[d] /\ result'[d] = result[d]

\* C16: the result of every operation depends only on the arguments of that
\* invocation: over any interleaving of calls to the six operations by
\* several callers, two invocations with the same arguments return identical
\* results, and no step of an invocation changes what another invocation
\* holds.
C16_ResultDependsOnlyOnArguments ==
  []SameArgumentsSameResult /\ [][OnlyOwnFrameWritten]_vars

\* Two callers hold the result of the same Click webhook verification, the
\* second having called while the first held its result.
C16_Witness ==
  /\ op[1] = "click_verify_webhook_signature"
  /\ op[2] = "click_verify_webhook_signature"
  /\ args[1] = args[2]
  /\ Returned(1) /\ Returned(2)
  /\ result[1].valid /\ result[2].valid

\* A result the caller can read: a dict, not an exception, with a boolean
\* success or valid and a text for a person (a reason, a message or
\* instructions).
WellFormedResult ==
  /\ "raised" \notin DOMAIN result
  /\ \/ "success" \in DOMAIN result /\ result.success \in BOOLEAN
     \/ "valid" \in DOMAIN result /\ result.valid \in BOOLEAN
  /\ DOMAIN result \cap {"reason", "message", "instructions"} # {}

\* C17: for every combination of arguments, malformed ones among them (an
\* amount that is no number, a header that is missing or no text, empty
\* strings), each of the six operations returns a well-formed result with a
\* success or valid boolean and a reason; no fault leaves the operation.
C17_EveryCallReturnsWellFormedResult ==
  op # "none" => WellFormedResult

\* The signed fields of the Click webhook in hand, and every way of giving
\* exactly one of the seven another value (an amount is another value when
\* it is another number).
ClickSignedFields ==
  <<args.click_trans_id, args.service_id, args.secret_key,
    args.merchant_trans_id, args.amount, args.action, args.sign_time>>

\* The amounts of the webhooks as numbers, and the times of signing with
\* one more day.
WebhookAmounts == {ParseFloat(t) : t \in WebhookAmountTexts}
OtherSignTimes == SignTimes \cup {S(<<"2", "0", "2", "4", "-", "0", "1", "-", "0", "2">>)}


ClickOneFieldChanged ==
  LET f == ClickSignedFields
  IN  {[f EXCEPT ![1] = v] : v \in ClickTransIds \ {f[1]}}
      \cup {[f EXCEPT ![2] = v] : v \in ServiceIds \ {f[2]}}
      \cup {[f EXCEPT ![3] = v] : v \in SigningSecrets \ {f[3]}}
      \cup {[f EXCEPT ![4] = v] : v \in MerchantTransIds \ {f[4]}}
      \cup {[f EXCEPT ![5] = v] : v \in WebhookAmounts \ {f[5]}}
      \cup {[f EXCEPT ![6] = v] : v \in Actions \ {f[6]}}
      \cup {[f EXCEPT ![7] = v] : v \in OtherSignTimes \ {f[7]}}

\* The same for the three signed fields of an Octo webhook.
OctoSignedFields == <<args.octo_payment_uuid, args.status, args.secret_key>>

OctoOneFieldChanged ==
  LET f == OctoSignedFields
  IN  {[f EXCEPT ![1] = v] : v \in PaymentUuids \ {f[1]}}
      \cup {[f EXCEPT ![2] = v] : v \in Statuses \ {f[2]}}
      \cup {[f EXCEPT ![3] = v] : v \in SigningSecrets \ {f[3]}}

\* C18: in the Click and Octo signature computation, giving exactly one
\* signed field another value (one of the seven Click fields; payment_uuid,
\* status or secret for Octo) while the others stay changes the canonical
\* input and the expected digest, and a signature valid before the change is
\* not accepted after it.
C18_OneChangedFieldChangesDigest ==
  /\ op = "click_verify_webhook_signature" =>
       LET f      == ClickSignedFields
           before == ClickSignString(f[1], f[2], f[3], f[4], f[5], f[6], f[7])
       IN  \A g \in ClickOneFieldChanged :
             LET after == click_verify_webhook_signature(
                            g[1], g[2], g[3], g[4], g[5], g[6], g[7],
                            args.received_sign_string)
             IN  /\ ClickSignString(g[1], g[2], g[3], g[4], g[5], g[6], g[7])
                      # before
                 /\ result.valid =>
                      /\ after.expected_signature # result.expected_signature
                      /\ ~after.valid
  /\ op = "octo_verify_webhook_signature" =>
       LET f      == OctoSignedFields
           before == OctoWebhookSignString(f[1], f[2], f[3])
       IN  \A g \in OctoOneFieldChanged :
             LET after == octo_verify_webhook_signature(
                            g[1], g[2], args.received_signature, g[3])
             IN  /\ OctoWebhookSignString(g[1], g[2], g[3]) # before
                 /\ result.valid =>
                      /\ after.expected_signature # result.expected_signature
                      /\ ~after.valid

\* A Click webhook with a valid signature, which the tool refuses for the
\* same fields signed at another time.
C18_Witness ==
  /\ op = "click_verify_webhook_signature"
  /\ args.click_trans_id = S(<<"1", "2", "3">>)
  /\ args.service_id = S(<<"4", "5", "6">>)
  /\ args.secret_key = S(<<"s", "3", "c", "r", "e", "t">>)
  /\ args.merchant_trans_id = S(<<"m", "1">>)
  /\ args.amount_text = S(<<"1", "0", "0", "0", ".", "5", "0">>)
  /\ args.action = 1
  /\ result.valid
  /\ ~click_verify_webhook_signature(
        args.click_trans_id, args.service_id, args.secret_key,
        args.merchant_trans_id, args.amount, args.action, S(<<"2", "0", "2", "4", "-", "0", "1", "-", "0", "2">>),
        args.received_sign_string).valid

\* The text fields of a Click webhook (click_trans_id, service_id, secret,
\* merchant_trans_id) in every choice of the model, and for a text every
\* choice that concatenates to it; the same for the fields of an Octo
\* webhook (payment_uuid, status, secret).
ClickTextFields ==
  ClickTransIds \X ServiceIds \X SigningSecrets \X MerchantTransIds

ClickFieldsWithText ==
  [c \in {f[1] \o f[2] \o f[3] \o f[4] : f \in ClickTextFields} |->
     {f \in ClickTextFields : f[1] \o f[2] \o f[3] \o f[4] = c}]

OctoTextFields == PaymentUuids \X Statuses \X SigningSecrets

OctoFieldsWithText ==
  [c \in {f[1] \o f[2] \o f[3] : f \in OctoTextFields} |->
     {f \in OctoTextFields : f[1] \o f[2] \o f[3] = c}]


\* C19: the verdict of Click and Octo verify_webhook depends only on the
\* concatenation of the signed fields, not on where one field ends and the
\* next begins: inputs whose text fields differ but concatenate to the same
\* string (click_trans_id "12" with service_id "3", and "1" with "23") get
\* the same expected signature and, for the same received signature, the
\* same verdict.
C19_VerdictIgnoresFieldBoundaries ==
  /\ op = "click_verify_webhook_signature" =>
       \A f \in ClickFieldsWithText[args.click_trans_id \o args.service_id
                                    \o args.secret_key
                                    \o args.merchant_trans_id] :
         LET other == click_verify_webhook_signature(
                        f[1], f[2], f[3], f[4], args.amount, args.action,
                        args.sign_time, args.received_sign_string)
         IN  /\ other.expected_signature = result.expected_signature
             /\ other.valid = result.valid
  /\ op = "octo_verify_webhook_signature" =>
       \A f \in OctoFieldsWithText[args.octo_payment_uuid \o args.status
                                   \o args.secret_key] :
         LET other == octo_verify_webhook_signature(
                        f[1], f[2], args.received_signature, f[3])
         IN  /\ other.expected_signature = result.expected_signature
             /\ other.valid = result.valid

\* The signature made for click_trans_id "12" and service_id "3" is valid
\* for them, and as well for click_trans_id "1" and service_id "23".
C19_Witness ==
  /\ op = "click_verify_webhook_signature"
  /\ args.click_trans_id = S(<<"1", "2">>)
  /\ args.service_id = S(<<"3">>)
  /\ result.valid
  /\ click_verify_webhook_signature(
       S(<<"1">>), S(<<"2", "3">>), args.secret_key, args.merchant_trans_id, args.amount,
       args.action, args.sign_time, args.received_sign_string).valid

\* C20: Payme verify_webhook decodes only the text between the first and
\* the second space of the header.  What follows a second space is ignored:
\* the result is the one of the header cut before it, and the verdict is
\* that of the credential this token decodes to.  A header with nothing, or
\* with another space, right after "Basic " has an empty token, which
\* decodes to the empty string and is reported valid exactly when the secret
\* is the empty string.
C20_PaymeTokenIsSecondWord ==
  (op = "payme_verify_webhook_auth" /\ HasBasicPrefix(args.authorization_header))
    => LET token == TokenOf(args.authorization_header)
           d     == DecodedCredential(args.authorization_header)
       IN  /\ result = payme_verify_webhook_auth(S(<<"B", "a", "s", "i", "c", " ">>) \o token,
                                                 args.merchant_key)
           /\ result.valid <=> (d.ok /\ IsSubstring(args.merchant_key, d.s))
           /\ token = <<>> =>
                /\ d = [ok |-> TRUE, s |-> <<>>]
                /\ "decoded_auth" \in DOMAIN result
                /\ result.valid <=> args.merchant_key = <<>>
                /\ result.valid => result.decoded_auth = <<>>

\* "Basic", two spaces and "YQ=": the token is empty, "YQ=" is not read,
\* and the empty secret is found in the empty credential.
C20_Witness ==
  /\ op = "payme_verify_webhook_auth"
  /\ args.authorization_header = S(<<"B", "a", "s", "i", "c", " ", " ", "Y", "Q", "=">>)
  /\ args.merchant_key = <<>>
  /\ result = [valid        |-> TRUE,
               decoded_auth |-> <<>>,
               message      |-> "Valid Payme webhook authentication"]

====
